---- MODULE Spec2Model ----
(***************************************************************************)
(* RadialGauge (src/src/RadialGauge.tsx): the tween engine of the          *)
(* component (useState / useRef / useEffect, lines 276-306), the value     *)
(* projection of a render (lines 313-328), the segment builder             *)
(* convertThresholdsToSegments (lines 117-165), the tick builder           *)
(* createThresholdTicks (lines 167-210) and the value color of a render    *)
(* (lines 370-374).                                                        *)
(*                                                                         *)
(* Numbers.  The source computes in IEEE doubles.  The model computes on a *)
(* grid of integers: every arithmetic result is rounded to the nearest     *)
(* grid point (finite precision), a result whose magnitude exceeds MaxNum  *)
(* is +-Infinity (finite range), and Infinity * 0 is NaN.                  *)
(*                                                                         *)
(* Time.  Date.now() - startTime is kept per animate closure as `elapsed`, *)
(* saturated at the closure's transitionDuration: progress is              *)
(* min(elapsed / transitionDuration, 1), so nothing else of the clock is   *)
(* observable.  One Tick is one unit of Date.now().                        *)
(*                                                                         *)
(* Handles.  requestAnimationFrame returns a handle that is never reused.  *)
(* A handle is held only by the browser's callback list and by             *)
(* animationRef.current, so the model hands out the least handle held by   *)
(* neither.                                                                *)
(***************************************************************************)
EXTENDS Integers, Sequences, FiniteSets, TLC

\* ------------------------------------------------------------------ bounds
\* largest finite magnitude of the number grid
MaxNum == 40
\* how many times the parent passes new props to one gauge instance
MaxChanges == 2
\* longest thresholds list drawn as input of the segment builder
MaxThresholds == 3

\* ------------------------------------------------------------------ inputs
\* requested values; the domains below end at 20, so -8 and 24 lie outside
Values == {-8, 8, 24}
\* transitionDuration in ticks; 0 disables the animation
Durations == {0, 2}
\* easing functions with values in [0, 1] on [0, 1]
RangeEasings == {"linear", "quadOut"}
\* an easing function that leaves [0, 1] (easings.net: easeInBack)
OvershootEasings == {"backIn"}
\* [min, max] and [startAngle, endAngle] of an instance: the defaults
\* (lines 243, 248, 249), the half-moon sweep, and a reversed sweep
Configs ==
    { [min |-> 0, max |-> 20, startAngle |-> -40, endAngle |-> 220],
      [min |-> 4, max |-> 20, startAngle |-> 0,   endAngle |-> 180],
      [min |-> 0, max |-> 20, startAngle |-> 220, endAngle |-> -40] }
\* threshold values (below min, at min, inside, at max, above max) and colors
ThresholdValues == {-4, 0, 4, 12, 20, 24}
Colors == {"tomato", "orange"}
\* a domain with max = min
DegenerateConfigs == { [min |-> 8, max |-> 8, startAngle |-> -40, endAngle |-> 220] }

\* ----------------------------------------------------------------- numbers
PosInf == MaxNum + 1
NegInf == 0 - (MaxNum + 1)
NaN == MaxNum * MaxNum * MaxNum

IsNaN(x) == x = NaN
IsInf(x) == x = PosInf \/ x = NegInf
IsFinite(x) == ~IsNaN(x) /\ ~IsInf(x)

Min2(a, b) == IF a < b THEN a ELSE b
Max2(a, b) == IF a > b THEN a ELSE b

\* n / d (d > 0) rounded to the nearest integer, ties upwards
Round(n, d) == (2 * n + d) \div (2 * d)

\* a finite result outside the finite range becomes an infinity
Overflow(x) == IF x > MaxNum THEN PosInf ELSE IF x < 0 - MaxNum THEN NegInf ELSE x

EaseBackIn(f, e, T) == <<e * e * (27 * e - 17 * T), 10 * T * T * T>>

\* easingFn(e / T) as the fraction <<numerator, denominator>>, denominator > 0
Ease(f, e, T) ==
    CASE f = "linear"  -> <<e, T>>
      [] f = "quadOut" -> <<e * (2 * T - e), T * T>>
      [] f = "backIn"  -> <<e * e * (27 * e - 17 * T), 10 * T * T * T>>

\* d3 interpolateNumber: a * (1 - t) + b * t, t = <<n, d>>, b finite
Interpolate(a, b, t) ==
    LET n == t[1]
        d == t[2]
    IN  IF IsNaN(a) \/ IsNaN(b) THEN NaN
        ELSE IF IsInf(a)
             THEN IF d - n = 0 THEN NaN
                  ELSE IF (a = PosInf) = (d - n > 0) THEN PosInf ELSE NegInf
             ELSE Overflow(Round(a * (d - n) + b * n, d))

\* --------------------------------------------------------------- variables
VARIABLES
    mounted,        \* the instance is mounted
    config,         \* min, max, startAngle, endAngle of the instance
    easings,        \* the easing functions the parent passes
    props,          \* value, transitionDuration, easingFn of the last render
    thresholds,     \* the array last passed as thresholds, after that render
    tweenValue,     \* useState(value): the state as of the last setTweenValue
    animationRef,   \* animationRef.current
    rendered,       \* what the last render read and computed
    isArray,        \* Array.isArray of the thresholds prop of the last render
    passed,         \* history: that array as the parent passed it
    segments,       \* thresholdSegments of the last render
    showThresholdTicks, \* the showThresholdTicks prop of the instance
    thresholdTicks, \* thresholdTicks of the last render
    valueColor,     \* valueColor of the last render
    error,          \* the error the last render threw to its caller
    effectPending,  \* the last commit changed the deps; effects not yet flushed
    hasCleanup,     \* the last effect run returned a cleanup function
    frames,         \* callbacks handed to requestAnimationFrame, not yet run
    previous,       \* history: animationValue and valueAngle of the render before
    oldValue,       \* history: the value prop before the last props change
    trigger,        \* history: what caused the last render
    changes,        \* history: number of props changes so far
    sinceChange,    \* history: ticks since the last props change (saturated)
    lateFrame,      \* history: a frame ran a full duration after that change
    lastCancel,     \* history: what the last cleanup cancelled
    rafCalled,      \* history: requestAnimationFrame was called
    alwaysZero      \* history: transitionDuration was 0 at every render

gaugeVars ==
    <<mounted, config, easings, props, tweenValue, animationRef, rendered,
      effectPending, hasCleanup, frames, previous, oldValue, trigger,
      changes, sinceChange,
      lateFrame, lastCancel, rafCalled, alwaysZero>>
thresholdVars == <<isArray, passed, showThresholdTicks, thresholdTicks, error>>
vars == <<gaugeVars, thresholds, segments, valueColor, thresholdVars>>

MaxDuration == CHOOSE d \in Durations : \A e \in Durations : e <= d

\* ------------------------------------------------------------------ render
AnimationValueAlwaysTween(transitionDuration, tween, value) == tween

\* line 279
AnimationValue(transitionDuration, tween, value) ==
    IF transitionDuration > 0 THEN tween ELSE value

\* lines 65-67, in units of pi / 180
DegreesToRadians(degrees) == degrees - 90

\* the numerator that stands for the fraction 1: fractions are numerators
\* over max - min, and over 1 when max = min
One(min, max) == IF max = min THEN 1 ELSE max - min

\* x / 0 clamped to [0, 1] by Math.max(0, Math.min(1, _)): 0 / 0 is NaN and
\* stays NaN, a positive x gives Infinity, a negative x -Infinity
ClampedOverZero(x) == IF x = 0 THEN NaN ELSE IF x > 0 THEN 1 ELSE 0

NormalizedValueUnclamped(animationValue, min, max) == animationValue - min

\* lines 324-327: the numerator of the clamped fraction over max - min
NormalizedValue(animationValue, min, max) ==
    IF IsNaN(animationValue) THEN NaN
    ELSE IF max = min THEN ClampedOverZero(animationValue - min)
    ELSE IF animationValue = PosInf THEN max - min
    ELSE IF animationValue = NegInf THEN 0
    ELSE Max2(0, Min2(max - min, animationValue - min))

\* line 328, in units of (pi / 180) / (max - min)
ValueAngle(normalizedValue, startRad, endRad, span) ==
    IF IsNaN(normalizedValue) THEN NaN
    ELSE startRad * span + normalizedValue * (endRad - startRad)

\* the body of the component function, lines 277-328
Render(p, tween, cfg) ==
    LET av == AnimationValue(p.transitionDuration, tween, p.value)
        nv == NormalizedValue(av, cfg.min, cfg.max)
    IN  [ value |-> p.value,
          transitionDuration |-> p.transitionDuration,
          easingFn |-> p.easingFn,
          tweenValue |-> tween,
          animationValue |-> av,
          normalizedValue |-> nv,
          valueAngle |-> ValueAngle(nv, DegreesToRadians(cfg.startAngle),
                                    DegreesToRadians(cfg.endAngle),
                                    One(cfg.min, cfg.max)) ]

\* line 326: max - min; lines 313-314: startRad, endRad, of the instance
Span == config.max - config.min
StartRad == DegreesToRadians(config.startAngle)
EndRad == DegreesToRadians(config.endAngle)

\* line 306
Deps(r) == <<r.value, r.tweenValue, r.transitionDuration, r.easingFn>>

\* ------------------------------------------------------------ tween engine
\* line 282: the effect returns at once, and returns no cleanup
EffectReturnsEarly(transitionDuration) == transitionDuration = 0

TweenSyncedToValue(tween, value) == value

\* line 282: the return comes before any setTweenValue, so the state after
\* the effect is the state before it, whatever the value prop is
TweenAfterEarlyReturn(tween, value) == tween

StartValueFromTarget(r) == r.value

\* line 284
StartValue(r) == r.tweenValue

\* lines 288-289: the numerator of progress over transitionDuration
Progress(elapsed, transitionDuration) == Min2(elapsed, transitionDuration)

\* lines 290-292
CurrentValue(c) ==
    Interpolate(c.startValue, c.value,
                Ease(c.easingFn, Progress(c.elapsed, c.transitionDuration),
                     c.transitionDuration))

\* line 295
Reschedules(c) == Progress(c.elapsed, c.transitionDuration) < c.transitionDuration

Handles(fs) == {c.handle : c \in fs}

\* the handle requestAnimationFrame returns
NewHandle(fs, ref) ==
    CHOOSE h \in 1..(Cardinality(fs) + 2) :
        /\ h # ref
        /\ h \notin Handles(fs)
        /\ \A g \in 1..(h - 1) : g = ref \/ g \in Handles(fs)

CancelStaleHandle(h, fs) == {c \in fs : c.handle # h - 1}

CancelAnimationFrame(h, fs) == {c \in fs : c.handle # h}

CleanupCancelsNothing(ref, fs) == fs

\* lines 301-305
Cleanup(ref, fs) == IF ref # 0 THEN CancelAnimationFrame(ref, fs) ELSE fs

NoCleanupReturned(cleanup, ref, fs) == fs

\* what the previous effect's cleanup leaves of the pending callbacks
AfterCleanup(cleanup, ref, fs) == IF cleanup THEN Cleanup(ref, fs) ELSE fs

Supersede(fs) == {[c EXCEPT !.superseded = TRUE] : c \in fs}

\* lines 284-285: the closure of a new effect run
Closure(r) ==
    [ startValue |-> StartValue(r),
      value |-> r.value,
      transitionDuration |-> r.transitionDuration,
      easingFn |-> r.easingFn,
      elapsed |-> 0,
      superseded |-> FALSE ]

WithHandle(c, h) ==
    [ handle |-> h, startValue |-> c.startValue, value |-> c.value,
      transitionDuration |-> c.transitionDuration, easingFn |-> c.easingFn,
      elapsed |-> c.elapsed, superseded |-> c.superseded ]

\* ------------------------------------------------------- segment builder
\* line 122: the guard of the throw
NeverThrows(isArr) == FALSE

ThrowsNotArray(isArr) == ~isArr

\* lines 123-125: the message of the Error
NotArrayError == "thresholds must be an array of objects { value: number, color: string }"

SortedInPlace(ts, sorted) == sorted

\* line 131: the spread [...thresholds] copies the array before the sort, so
\* the caller's array after the call is the array passed (ts), whatever the
\* sorted copy is
CallerArrayAfter(ts, sorted) == ts

ComesBeforeOrTies(a, b) == a.value <= b.value

\* line 131: the comparator (a, b) => a.value - b.value is negative
ComesBefore(a, b) == a.value < b.value

\* line 131: [...thresholds].sort((a, b) => a.value - b.value), a stable sort
RECURSIVE InsertSorted(_, _)
InsertSorted(sorted, t) ==
    IF sorted = <<>> THEN <<t>>
    ELSE IF ComesBefore(t, sorted[Len(sorted)])
         THEN Append(InsertSorted(SubSeq(sorted, 1, Len(sorted) - 1), t),
                     sorted[Len(sorted)])
         ELSE Append(sorted, t)

Unsorted(ts) == ts

RECURSIVE SortByValue(_)
SortByValue(ts) ==
    IF ts = <<>> THEN <<>>
    ELSE InsertSorted(SortByValue(SubSeq(ts, 1, Len(ts) - 1)), ts[Len(ts)])

NormalizedEndUnclamped(value, min, max) == value - min

\* lines 138-141: the numerator of normalizedEnd over max - min
NormalizedEnd(value, min, max) ==
    IF max = min THEN ClampedOverZero(value - min)
    ELSE Max2(0, Min2(max - min, value - min))

ReachesCursor(normalizedEnd, currentStart) ==
    ~IsNaN(normalizedEnd) /\ normalizedEnd >= currentStart

\* line 143: normalizedEnd > currentStart, false when normalizedEnd is NaN
ExceedsCursor(normalizedEnd, currentStart) ==
    ~IsNaN(normalizedEnd) /\ normalizedEnd > currentStart

FallbackSilver == "silver"

\* lines 127 and 156: the color of the segment of an empty list
FallbackColor == "limegreen"

\* lines 156 and 374: color || fallback; undefined does not occur, the empty
\* string is the falsy color
OrElse(color, fallback) == IF color = "" THEN fallback ELSE color

\* lines 136-151: the loop over sortedThresholds[i..], with the segments
\* pushed so far and currentStart
RECURSIVE SegmentLoop(_, _, _, _, _, _)
SegmentLoop(sorted, i, segs, currentStart, min, max) ==
    IF i > Len(sorted) THEN [segments |-> segs, currentStart |-> currentStart]
    ELSE LET normalizedEnd == NormalizedEnd(sorted[i].value, min, max)
         IN  IF ExceedsCursor(normalizedEnd, currentStart)
             THEN SegmentLoop(sorted, i + 1,
                              Append(segs, [start |-> currentStart,
                                            end |-> normalizedEnd,
                                            color |-> sorted[i].color]),
                              normalizedEnd, min, max)
             ELSE SegmentLoop(sorted, i + 1, segs, currentStart, min, max)

\* lines 126-165, for an array; start and end are numerators over max - min,
\* so that the fraction 1 is One(min, max)
convertThresholdsToSegments(ts, min, max) ==
    IF Len(ts) = 0 THEN <<[start |-> 0, end |-> One(min, max), color |-> FallbackColor]>>
    ELSE LET sortedThresholds == SortByValue(ts)
             loop == SegmentLoop(sortedThresholds, 1, <<>>, 0, min, max)
         IN  IF loop.currentStart < One(min, max)
             THEN Append(loop.segments,
                         [start |-> loop.currentStart,
                          end |-> One(min, max),
                          color |-> OrElse(sortedThresholds[Len(sortedThresholds)].color,
                                           FallbackColor)])
             ELSE loop.segments

\* line 250: the default of referenceThresholds
DefaultReferenceThresholds(max) == << [value |-> max, color |-> "silver"] >>

\* lines 251-255, with max a multiple of 5
DefaultThresholds(max) ==
    << [value |-> (max * 6) \div 10, color |-> "limegreen"],
       [value |-> (max * 8) \div 10, color |-> "orange"],
       [value |-> max, color |-> "tomato"] >>

\* ------------------------------------------------------------ tick builder
AddAlways(boundaries, b) == Append(boundaries, b)

\* lines 181, 183-184: Set.add keeps the first occurrence, in insertion order
SetAdd(boundaries, b) ==
    IF \E k \in 1..Len(boundaries) : boundaries[k] = b
    THEN boundaries ELSE Append(boundaries, b)

\* lines 181-185: the Set of boundaries after segments[i..]
RECURSIVE Boundaries(_, _, _)
Boundaries(segs, i, boundaries) ==
    IF i > Len(segs) THEN boundaries
    ELSE Boundaries(segs, i + 1,
                    SetAdd(SetAdd(boundaries, segs[i].start), segs[i].end))

\* lines 188, 193: the angle, in the units of ValueAngle, and the value of
\* the tick at a boundary (a numerator over `one`)
ThresholdTick(boundary, startRad, endRad, min, max, one) ==
    [ angle |-> startRad * one + boundary * (endRad - startRad),
      value |-> min + (boundary * (max - min)) \div one ]

\* lines 167-210, without the radius: a tick is its angle and its value
createThresholdTicks(startRad, endRad, segs, min, max) ==
    LET boundaries == Boundaries(segs, 1, <<>>)
    IN  [ k \in 1..Len(boundaries) |->
            ThresholdTick(boundaries[k], startRad, endRad, min, max, One(min, max)) ]

\* lines 334-343
ThresholdTicks(show, segs, cfg) ==
    IF show
    THEN createThresholdTicks(DegreesToRadians(cfg.startAngle),
                              DegreesToRadians(cfg.endAngle), segs, cfg.min, cfg.max)
    ELSE <<>>

\* ------------------------------------------------------------- value color
InRangeEndOpen(normalizedValue, segment) ==
    /\ ~IsNaN(normalizedValue)
    /\ normalizedValue >= segment.start
    /\ normalizedValue < segment.end

\* lines 372-373: the predicate of find; a comparison with NaN is false
InRange(normalizedValue, segment) ==
    /\ ~IsNaN(normalizedValue)
    /\ normalizedValue >= segment.start
    /\ normalizedValue <= segment.end

FindLast(segs, i, normalizedValue) ==
    IF \E k \in i..Len(segs) : InRange(normalizedValue, segs[k])
    THEN CHOOSE k \in i..Len(segs) :
             /\ InRange(normalizedValue, segs[k])
             /\ \A l \in (k + 1)..Len(segs) : ~InRange(normalizedValue, segs[l])
    ELSE 0

\* line 371: Array.prototype.find from index i on; 0 stands for undefined
RECURSIVE Find(_, _, _)
Find(segs, i, normalizedValue) ==
    IF i > Len(segs) THEN 0
    ELSE IF InRange(normalizedValue, segs[i]) THEN i
    ELSE Find(segs, i + 1, normalizedValue)

\* lines 370-374
ValueColor(segs, normalizedValue) ==
    LET found == Find(segs, 1, normalizedValue)
    IN  IF found = 0 THEN "#999" ELSE OrElse(segs[found].color, "#999")

\* -------------------------------------------------------------------- init
\* the state after the first render (mount), its effect not yet flushed
Mount(cfg, es, p, ts, show) ==
    /\ mounted = TRUE
    /\ config = cfg
    /\ easings = es
    /\ props = p
    /\ thresholds = ts
    /\ tweenValue = p.value
    /\ animationRef = 0
    /\ rendered = Render(p, p.value, cfg)
    /\ isArray = TRUE
    /\ passed = ts
    /\ error = "none"
    /\ segments = convertThresholdsToSegments(ts, cfg.min, cfg.max)
    /\ showThresholdTicks = show
    /\ thresholdTicks = ThresholdTicks(show, segments, cfg)
    /\ valueColor = ValueColor(segments, rendered.normalizedValue)
    /\ effectPending = TRUE
    /\ hasCleanup = FALSE
    /\ frames = {}
    /\ previous = [animationValue |-> rendered.animationValue,
                   valueAngle |-> rendered.valueAngle]
    /\ oldValue = p.value
    /\ trigger = "mount"
    /\ changes = 0
    /\ sinceChange = 0
    /\ lateFrame = FALSE
    /\ lastCancel = "none"
    /\ rafCalled = FALSE
    /\ alwaysZero = (p.transitionDuration = 0)

Props(es) == [value : Values, transitionDuration : Durations, easingFn : es]

Init ==
    \E cfg \in Configs, p \in Props(RangeEasings) :
        Mount(cfg, RangeEasings, p, DefaultThresholds(cfg.max), FALSE)

\* ----------------------------------------------------------------- actions
\* the parent renders the gauge with new props
Rerender(p) ==
    /\ mounted
    /\ ~effectPending
    /\ changes < MaxChanges
    /\ p # props
    /\ props' = p
    /\ rendered' = Render(p, tweenValue, config)
    /\ previous' = [animationValue |-> rendered.animationValue,
                    valueAngle |-> rendered.valueAngle]
    /\ oldValue' = props.value
    /\ trigger' = "props"
    /\ effectPending' = (Deps(rendered') # Deps(rendered))
    /\ changes' = changes + 1
    /\ sinceChange' = 0
    /\ lateFrame' = FALSE
    /\ alwaysZero' = (alwaysZero /\ p.transitionDuration = 0)
    /\ valueColor' = ValueColor(segments, rendered'.normalizedValue)
    /\ UNCHANGED <<mounted, config, easings, thresholds, segments, tweenValue,
                   animationRef, hasCleanup, frames, lastCancel, rafCalled>>
    /\ UNCHANGED thresholdVars

\* setTweenValue changed the state: React renders the gauge again
RenderState ==
    /\ mounted
    /\ ~effectPending
    /\ tweenValue # rendered.tweenValue
    /\ rendered' = Render(props, tweenValue, config)
    /\ previous' = [animationValue |-> rendered.animationValue,
                    valueAngle |-> rendered.valueAngle]
    /\ trigger' = "state"
    /\ effectPending' = (Deps(rendered') # Deps(rendered))
    /\ valueColor' = ValueColor(segments, rendered'.normalizedValue)
    /\ UNCHANGED <<mounted, config, easings, props, thresholds, segments,
                   tweenValue, animationRef, hasCleanup, frames, oldValue,
                   changes, sinceChange, lateFrame, lastCancel, rafCalled,
                   alwaysZero>>
    /\ UNCHANGED thresholdVars

\* React flushes the passive effects of the last commit: the cleanup of the
\* previous effect run (lines 301-305), then the effect (lines 281-300)
FlushEffects ==
    /\ mounted
    /\ effectPending
    /\ effectPending' = FALSE
    /\ LET kept == AfterCleanup(hasCleanup, animationRef, frames)
       IN  /\ lastCancel' = IF kept # frames THEN "flush" ELSE "none"
           /\ IF EffectReturnsEarly(rendered.transitionDuration)
              THEN /\ hasCleanup' = FALSE
                   /\ frames' = Supersede(kept)
                   /\ tweenValue' = TweenAfterEarlyReturn(tweenValue, rendered.value)
                   /\ UNCHANGED <<animationRef, rafCalled>>
              ELSE LET c == Closure(rendered)
                       h == NewHandle(kept, animationRef)
                   IN  /\ hasCleanup' = TRUE
                       /\ tweenValue' = CurrentValue(c)
                       /\ IF Reschedules(c)
                          THEN /\ frames' = Supersede(kept) \cup {WithHandle(c, h)}
                               /\ animationRef' = h
                               /\ rafCalled' = TRUE
                          ELSE /\ frames' = Supersede(kept)
                               /\ UNCHANGED <<animationRef, rafCalled>>
    /\ UNCHANGED <<mounted, config, easings, props, thresholds, segments,
                   rendered, previous, oldValue, trigger, changes,
                   sinceChange, lateFrame, alwaysZero, valueColor>>
    /\ UNCHANGED thresholdVars

\* the browser runs a pending frame callback: animate, lines 287-298
Frame(c) ==
    /\ c \in frames
    /\ tweenValue' = IF mounted THEN CurrentValue(c) ELSE tweenValue
    /\ LET rest == frames \ {c}
           h == NewHandle(rest, animationRef)
       IN  IF Reschedules(c)
           THEN /\ frames' = rest \cup {WithHandle(c, h)}
                /\ animationRef' = h
                /\ rafCalled' = TRUE
           ELSE /\ frames' = rest
                /\ UNCHANGED <<animationRef, rafCalled>>
    /\ lateFrame' = (sinceChange >= props.transitionDuration)
    /\ UNCHANGED <<mounted, config, easings, props, thresholds, segments,
                   rendered, effectPending, hasCleanup, previous, oldValue,
                   trigger, changes, sinceChange, lastCancel, alwaysZero,
                   valueColor>>
    /\ UNCHANGED thresholdVars

\* Date.now() advances by one; React's render and effect flush take no time
Tick ==
    /\ mounted => (~effectPending /\ tweenValue = rendered.tweenValue)
    /\ frames' = {[c EXCEPT !.elapsed = Min2(c.elapsed + 1, c.transitionDuration)]
                     : c \in frames}
    /\ sinceChange' = Min2(sinceChange + 1, MaxDuration)
    /\ UNCHANGED <<mounted, config, easings, props, thresholds, segments,
                   tweenValue, animationRef, rendered, effectPending,
                   hasCleanup, previous, oldValue, trigger, changes,
                   lateFrame, lastCancel, rafCalled, alwaysZero, valueColor>>
    /\ UNCHANGED thresholdVars

\* the parent removes the gauge: React runs the last effect's cleanup
Unmount ==
    /\ mounted
    /\ ~effectPending
    /\ mounted' = FALSE
    /\ frames' = AfterCleanup(hasCleanup, animationRef, frames)
    /\ lastCancel' = IF frames' # frames THEN "unmount" ELSE "none"
    /\ UNCHANGED <<config, easings, props, thresholds, segments, tweenValue,
                   animationRef, rendered, effectPending, hasCleanup,
                   previous, oldValue, trigger, changes, sinceChange,
                   lateFrame, rafCalled, alwaysZero, valueColor>>
    /\ UNCHANGED thresholdVars

Next ==
    \/ \E p \in Props(easings) : Rerender(p)
    \/ RenderState
    \/ FlushEffects
    \/ \E c \in frames : Frame(c)
    \/ Tick
    \/ Unmount

Spec == Init /\ [][Next]_vars

\* a render with the thresholds prop ts, the other props as before: lines
\* 331-343 and 370-374.  A throw of convertThresholdsToSegments leaves the
\* render through its caller: nothing of that render is produced, and the
\* instance renders no more
RenderThresholds(isArr, ts) ==
    /\ mounted
    /\ error = "none"
    /\ isArray' = isArr
    /\ IF ThrowsNotArray(isArr)
       THEN /\ error' = NotArrayError
            /\ UNCHANGED <<passed, thresholds, segments, thresholdTicks, valueColor>>
       ELSE /\ error' = "none"
            /\ passed' = ts
            /\ thresholds' = CallerArrayAfter(ts, SortByValue(ts))
            /\ segments' = convertThresholdsToSegments(ts, config.min, config.max)
            /\ thresholdTicks' = ThresholdTicks(showThresholdTicks, segments', config)
            /\ valueColor' = ValueColor(segments', rendered.normalizedValue)
    /\ UNCHANGED <<gaugeVars, showThresholdTicks>>

\* the parent renders the gauge with one more threshold
RerenderThresholds(t) ==
    /\ Len(thresholds) < MaxThresholds
    /\ RenderThresholds(TRUE, Append(thresholds, t))

\* the parent renders the gauge with a thresholds prop that is not an array
RerenderNotArray == RenderThresholds(FALSE, thresholds)

\* values displayed without animation: below or at min, on a threshold,
\* above max, and NaN (what a missing value computes to as well)
DisplayedValues == {0, 12, 24, NaN}

\* the segment builder, the tick builder and the value color on every
\* thresholds list: a mounted gauge whose thresholds prop grows from the
\* empty list, one render per threshold
InitSeg ==
    \E cfg \in Configs, v \in DisplayedValues :
        Mount(cfg, RangeEasings,
              [value |-> v, transitionDuration |-> 0, easingFn |-> "linear"],
              <<>>, TRUE)

NextSeg ==
    \/ \E t \in [value : ThresholdValues, color : Colors] : RerenderThresholds(t)
    \/ RerenderNotArray

SegSpec == InitSeg /\ [][NextSeg]_vars

\* the same component with an easing function that leaves [0, 1]; React
\* renders every state change and flushes every effect, the browser runs
\* every pending frame callback, and the clock advances
InitOvershoot ==
    \E cfg \in Configs, p \in Props(OvershootEasings) :
        Mount(cfg, OvershootEasings, p, DefaultThresholds(cfg.max), FALSE)

FairSpec ==
    /\ InitOvershoot
    /\ [][Next]_vars
    /\ WF_vars(RenderState)
    /\ WF_vars(FlushEffects)
    /\ WF_vars(\E c \in frames : Frame(c))
    /\ WF_vars(Tick)

\* the component on a domain with max = min
InitDegenerate ==
    \E cfg \in DegenerateConfigs, p \in Props(RangeEasings) :
        Mount(cfg, RangeEasings, p, DefaultReferenceThresholds(cfg.max), FALSE)

DegenerateSpec == InitDegenerate /\ [][Next]_vars

\* ------------------------------------------------------------------ claims
\* React has rendered the last state and flushed the effects of that render
Settled == ~effectPending /\ tweenValue = rendered.tweenValue

\* C1: with transitionDuration = T > 0, once a frame has run T or more after
\* the last change of the props, the displayed value equals the target.
C1_DisplayedEqualsTargetAfterDuration ==
    (mounted /\ props.transitionDuration > 0 /\ lateFrame /\ Settled)
        => rendered.animationValue = props.value

\* C2: with transitionDuration = 0 the value every render displays is the
\* requested value, and while transitionDuration has been 0 at every render
\* requestAnimationFrame has not been called and no callback is pending.
C2_ZeroDurationBypassesTween ==
    /\ rendered.transitionDuration = 0 => rendered.animationValue = rendered.value
    /\ alwaysZero => (~rafCalled /\ frames = {})

C2_Witness ==
    /\ alwaysZero
    /\ changes = MaxChanges
    /\ Settled
    /\ rendered.value # oldValue
    /\ tweenValue # rendered.value
    /\ rendered.animationValue = rendered.value

C4_NoSupersededCallback == \A c \in frames : ~c.superseded

C4_Witness ==
    /\ mounted
    /\ ~effectPending
    /\ trigger = "props"
    /\ lastCancel = "flush"
    /\ rendered.value # oldValue
    /\ \E c \in frames : c.value = rendered.value /\ c.elapsed = 0

\* C5: after teardown no frame callback is pending, and no step writes the
\* displayed value again.
C5_TeardownCancels == ~mounted => frames = {}

C5_Witness == ~mounted /\ lastCancel = "unmount" /\ frames = {}

\* C6: at most one frame callback of an instance is pending.
C6_AtMostOnePending == Cardinality(frames) <= 1

C6_Witness ==
    /\ Cardinality(frames) = 1
    /\ lastCancel = "flush"
    /\ trigger = "state"
    /\ changes > 0

\* C7: with transitionDuration > 0, once the requested value has stopped
\* changing the engine returns to Idle for good: the displayed value equals
\* the target and no frame callback is pending.
C7_EventuallyIdle ==
    <>[]((mounted /\ props.transitionDuration > 0)
            => (rendered.animationValue = props.value /\ frames = {}))

\* C8: while the displayed value equals the target and the props have not
\* changed since the mount, no frame callback is scheduled.
C8_IdleSchedulesNothing ==
    (mounted /\ changes = 0 /\ rendered.animationValue = rendered.value)
        => (frames = {} /\ ~rafCalled)

\* C9: the segments partition [0, 1]: the first starts at 0, the last ends at
\* 1 (max - min over max - min), each ends where the next starts.
C9_SegmentsPartition ==
    /\ Len(segments) >= 1
    /\ segments[1].start = 0
    /\ segments[Len(segments)].end = config.max - config.min
    /\ \A i \in 1..(Len(segments) - 1) : segments[i].end = segments[i + 1].start

C9_Witness ==
    /\ Len(segments) >= 2
    /\ \E i, j \in 1..Len(thresholds) : i < j /\ thresholds[i].value > thresholds[j].value
    /\ \E i \in 1..Len(thresholds) : thresholds[i].value < config.min
    /\ \E i \in 1..Len(thresholds) : thresholds[i].value > config.max

\* C10 as stated: in every render the normalized value lies in [0, 1], the
\* value angle lies in [startAngle_rad, endAngle_rad], and the angle does not
\* decrease when the displayed value does not.
C10_AngleInSweepNonDecreasing ==
    /\ 0 <= rendered.normalizedValue /\ rendered.normalizedValue <= Span
    /\ StartRad * Span <= rendered.valueAngle
    /\ rendered.valueAngle <= EndRad * Span
    /\ previous.animationValue <= rendered.animationValue
          => previous.valueAngle <= rendered.valueAngle

\* C10 amended: for every displayed number the normalized value lies in
\* [0, 1], the value angle lies between the two ends of the sweep, and the
\* angle is monotone in the displayed value in the direction of the sweep.
C10_AngleBetweenSweepEndsMonotone ==
    ~IsNaN(rendered.animationValue) =>
        /\ 0 <= rendered.normalizedValue /\ rendered.normalizedValue <= Span
        /\ Min2(StartRad, EndRad) * Span <= rendered.valueAngle
        /\ rendered.valueAngle <= Max2(StartRad, EndRad) * Span
        /\ previous.animationValue <= rendered.animationValue
              => IF EndRad >= StartRad
                 THEN previous.valueAngle <= rendered.valueAngle
                 ELSE previous.valueAngle >= rendered.valueAngle

C10_Witness ==
    /\ trigger = "state"
    /\ rendered.animationValue > config.max
    /\ rendered.normalizedValue = Span
    /\ previous.animationValue < rendered.animationValue
    /\ previous.valueAngle # rendered.valueAngle
    /\ EndRad < StartRad

\* C11: when max = min the value projection is guarded: the render fails
\* with an error or uses the fallback normalized value 0, so that no NaN
\* normalized value or angle reaches the geometry.
C11_DegenerateDomainGuarded ==
    config.max = config.min =>
        \/ error # "none"
        \/ /\ rendered.normalizedValue = 0
           /\ ~IsNaN(rendered.valueAngle)

\* C12: a render whose thresholds prop is not an array throws the error of
\* convertThresholdsToSegments to its caller and produces nothing: the
\* segments, the ticks, the value color and the projection stay those of
\* the render before.
C12_NotArrayThrowsToCaller ==
    [][~isArray' =>
          /\ error' = NotArrayError
          /\ segments' = segments
          /\ thresholdTicks' = thresholdTicks
          /\ valueColor' = valueColor
          /\ rendered' = rendered]_vars

C12_Witness ==
    /\ ~isArray
    /\ error = NotArrayError
    /\ Len(passed) = 2
    /\ Len(segments) = 3

\* C13 as stated: for every displayed value and every thresholds list with
\* max > min the value color is the color of one of the segments, and the
\* fallback "#999" is never used.
C13_NeverFallbackColor ==
    /\ valueColor # "#999"
    /\ \E i \in 1..Len(segments) : valueColor = segments[i].color

\* C13 amended: the value color is the color of a segment that contains the
\* normalized value whenever the displayed value is a number (so for every
\* normalized value in [0, 1]), and it is "#999" exactly when the displayed
\* value is NaN.
C13_FallbackColorExactlyForNaN ==
    /\ valueColor = "#999" <=> IsNaN(rendered.normalizedValue)
    /\ ~IsNaN(rendered.normalizedValue) =>
          \E i \in 1..Len(segments) :
              /\ valueColor = segments[i].color
              /\ segments[i].start <= rendered.normalizedValue
              /\ rendered.normalizedValue <= segments[i].end
    /\ \A nv \in 0..Span :
          \E i \in 1..Len(segments) :
              /\ ValueColor(segments, nv) = segments[i].color
              /\ segments[i].start <= nv /\ nv <= segments[i].end

C13_Witness ==
    /\ Len(segments) = 2
    /\ \E i, j \in 1..Len(passed) : i < j /\ passed[i].value > passed[j].value
    /\ rendered.animationValue = 12
    /\ segments[2].start < rendered.normalizedValue
    /\ rendered.normalizedValue < segments[2].end
    /\ valueColor = segments[2].color
    /\ valueColor # segments[1].color

\* C14: for an empty thresholds list convertThresholdsToSegments returns
\* exactly one segment, from 0 to 1, with the color "limegreen", whatever
\* min and max are.
C14_EmptyListOneFallbackSegment ==
    (isArray /\ passed = <<>>) =>
        /\ Len(segments) = 1
        /\ segments[1].start = 0
        /\ segments[1].end = Span
        /\ segments[1].color = "limegreen"

C14_Witness ==
    /\ isArray
    /\ passed = <<>>
    /\ config.min > 0
    /\ segments = <<[start |-> 0, end |-> Span, color |-> "limegreen"]>>

\* the position of the i-th threshold of ts in ascending order of value,
\* for pairwise distinct values
Rank(ts, i) == Cardinality({j \in 1..Len(ts) : ts[j].value <= ts[i].value})

\* the values of the array passed are pairwise distinct, lie in (min, max]
\* and include max
DistinctInDomainWithMax ==
    /\ isArray
    /\ \A i, j \in 1..Len(passed) : i # j => passed[i].value # passed[j].value
    /\ \A i \in 1..Len(passed) :
          config.min < passed[i].value /\ passed[i].value <= config.max
    /\ \E i \in 1..Len(passed) : passed[i].value = config.max

\* C15: for thresholds, in any order, with pairwise distinct values in
\* (min, max] that include max, there is one segment per threshold in
\* ascending order of value: the segment of a threshold ends at the
\* threshold's normalized value, starts at that of the next lower threshold
\* (at 0 for the lowest), and has the threshold's color.
C15_OneSegmentPerThreshold ==
    DistinctInDomainWithMax =>
        /\ Len(segments) = Len(passed)
        /\ \A i \in 1..Len(passed) :
              LET r == Rank(passed, i)
              IN  /\ segments[r].end = passed[i].value - config.min
                  /\ segments[r].color = passed[i].color
                  /\ IF r = 1 THEN segments[r].start = 0
                     ELSE \E j \in 1..Len(passed) :
                              /\ Rank(passed, j) = r - 1
                              /\ segments[r].start = passed[j].value - config.min

C15_Witness ==
    /\ DistinctInDomainWithMax
    /\ Len(passed) = 3
    /\ passed[1].value > passed[2].value
    /\ passed[3].value < passed[1].value
    /\ passed[1].color # passed[2].color
    /\ Len(segments) = 3

\* the normalized values of the thresholds passed, clamped to [0, 1]
ClampedFractions ==
    { Max2(0, Min2(Span, passed[i].value - config.min)) : i \in 1..Len(passed) }

\* C16: with max > min no segment has zero width and the segments are
\* sorted: start < end for every segment, every segment ends no later than
\* the next starts, and a threshold whose clamped normalized value does not
\* exceed the cursor adds no segment: there is one segment per distinct
\* clamped value above 0, and one more when none of them is 1.
C16_NoZeroWidthSortedAbsorbed ==
    /\ \A i \in 1..Len(segments) : segments[i].start < segments[i].end
    /\ \A i, j \in 1..Len(segments) : i < j => segments[i].end <= segments[j].start
    /\ passed # <<>> =>
          Len(segments) = Cardinality(ClampedFractions \ {0})
                            + (IF Span \in ClampedFractions THEN 0 ELSE 1)

C16_Witness ==
    /\ Len(passed) = 3
    /\ Len(segments) = 2
    /\ \E i, j \in 1..Len(passed) :
          /\ i # j
          /\ passed[i].value = passed[j].value
          /\ config.min < passed[i].value /\ passed[i].value < config.max
    /\ \E i \in 1..Len(passed) : passed[i].value <= config.min

\* the threshold that a stable sort by value puts last: the highest value,
\* and among equal values the one passed last
LastSorted ==
    CHOOSE k \in 1..Len(passed) :
        \A j \in 1..Len(passed) :
            \/ passed[j].value < passed[k].value
            \/ passed[j].value = passed[k].value /\ j <= k

\* C17: when the cursor is below 1 after all thresholds of a non-empty list,
\* the last segment runs from the cursor to 1 and has the color of the last
\* threshold in sorted order, also when that threshold was absorbed.
C17_FinalSegmentHasLastSortedColor ==
    (passed # <<>> /\ Span \notin ClampedFractions) =>
        LET last == segments[Len(segments)]
        IN  /\ last.end = Span
            /\ \A f \in ClampedFractions : f <= last.start
            /\ last.start \in ClampedFractions \cup {0}
            /\ last.color = passed[LastSorted].color

C17_Witness ==
    /\ Len(passed) = 2
    /\ passed[1].value = 12 /\ passed[2].value = 12
    /\ passed[1].color = "tomato" /\ passed[2].color = "orange"
    /\ Len(segments) = 2
    /\ segments[1] = [start |-> 0, end |-> 12 - config.min, color |-> "tomato"]
    /\ segments[2] = [start |-> 12 - config.min, end |-> Span, color |-> "orange"]

\* the closed range of the i-th segment contains the normalized value nv
Within(i, nv) == segments[i].start <= nv /\ nv <= segments[i].end

\* C18: the value color is the color of the first segment in list order
\* whose closed range contains the normalized value: a value on a boundary
\* shared by two segments gets the color of the lower one, 0 that of the
\* first segment and 1 that of the last.
C18_FirstSegmentContaining ==
    /\ \A nv \in 0..Span :
          /\ \E i \in 1..Len(segments) : Within(i, nv)
          /\ \A i \in 1..Len(segments) :
                (Within(i, nv) /\ \A j \in 1..(i - 1) : ~Within(j, nv))
                    => ValueColor(segments, nv) = segments[i].color
    /\ \A i \in 1..(Len(segments) - 1) :
          /\ segments[i].end = segments[i + 1].start
          /\ ValueColor(segments, segments[i].end) = segments[i].color
    /\ ValueColor(segments, 0) = segments[1].color
    /\ ValueColor(segments, Span) = segments[Len(segments)].color
    /\ ~IsNaN(rendered.normalizedValue) =>
          valueColor = ValueColor(segments, rendered.normalizedValue)

C18_Witness ==
    /\ \E i \in 1..(Len(segments) - 1) :
          /\ rendered.normalizedValue = segments[i].end
          /\ rendered.normalizedValue = segments[i + 1].start
          /\ valueColor = segments[i].color
          /\ valueColor # segments[i + 1].color
    /\ rendered.normalizedValue > 0
    /\ rendered.normalizedValue < Span

\* the p-th boundary in the order the segments list them: the start and
\* then the end of each segment
BoundaryAt(p) ==
    IF p % 2 = 1 THEN segments[(p + 1) \div 2].start ELSE segments[p \div 2].end

\* where the boundary b occurs first in that order
FirstOccurrence(b) ==
    CHOOSE p \in 1..(2 * Len(segments)) :
        BoundaryAt(p) = b /\ \A q \in 1..(p - 1) : BoundaryAt(q) # b

\* the boundary fraction of the k-th tick, from value = min + b * (max - min)
TickFraction(k) == thresholdTicks[k].value - config.min

\* C19: there is exactly one tick per distinct boundary among the starts
\* and ends of the segments, in order of first occurrence; for the segments
\* convertThresholdsToSegments builds that is one more tick than segments,
\* with values min + b * (max - min) in ascending order from min to max.
C19_OneTickPerBoundary ==
    showThresholdTicks =>
        LET n == Len(thresholdTicks)
            Fractions == {BoundaryAt(p) : p \in 1..(2 * Len(segments))}
        IN  /\ n = Cardinality(Fractions)
            /\ {TickFraction(k) : k \in 1..n} = Fractions
            /\ \A k, l \in 1..n :
                  k < l => FirstOccurrence(TickFraction(k)) < FirstOccurrence(TickFraction(l))
            /\ n = Len(segments) + 1
            /\ \A k, l \in 1..n : k < l => thresholdTicks[k].value < thresholdTicks[l].value
            /\ thresholdTicks[1].value = config.min
            /\ thresholdTicks[n].value = config.max

C19_Witness ==
    /\ showThresholdTicks
    /\ config.min > 0
    /\ Len(segments) = 2
    /\ Len(thresholdTicks) = 3
    /\ thresholdTicks[2].value = 12
    /\ \E i, j \in 1..Len(passed) : i < j /\ passed[i].value > passed[j].value

Between(a, x, b) == (a <= x /\ x <= b) \/ (b <= x /\ x <= a)

\* |target - x|
Distance(x, target) == IF x >= target THEN x - target ELSE target - x

\* C21: with easing values in [0, 1], what a frame callback writes lies
\* between the start value and the target of its animation, and every
\* render a frame causes displays a value between the value displayed
\* before (the start of the animation that frame belongs to) and the target,
\* so no farther from the target than the value displayed before.
C21_BetweenStartAndTargetNeverFarther ==
    /\ \A c \in frames : Between(c.startValue, CurrentValue(c), c.value)
    /\ (mounted /\ trigger = "state") =>
          /\ Between(previous.animationValue, rendered.animationValue, rendered.value)
          /\ Distance(rendered.animationValue, rendered.value)
                <= Distance(previous.animationValue, rendered.value)

C21_Witness ==
    /\ mounted
    /\ trigger = "state"
    /\ changes > 0
    /\ rendered.value # oldValue
    /\ previous.animationValue # oldValue
    /\ rendered.animationValue # rendered.value
    /\ Distance(rendered.animationValue, rendered.value)
          < Distance(previous.animationValue, rendered.value)
    /\ lastCancel = "flush"

\* C22: while transitionDuration is 0, once the effect of the first such
\* render has run, no step writes the tween value, whatever the requested
\* value becomes; the render that makes transitionDuration positive again
\* displays that stale tween value, and the animation its effect starts has
\* it as start value.
C22_ZeroDurationFreezesTween ==
    [][/\ (props.transitionDuration = 0 /\ (~effectPending \/ frames = {}))
            => tweenValue' = tweenValue
       /\ (props.transitionDuration = 0 /\ props'.transitionDuration > 0)
            => /\ rendered'.tweenValue = tweenValue
               /\ rendered'.animationValue = tweenValue
       /\ (effectPending /\ ~effectPending' /\ rendered.transitionDuration > 0)
            => \A c \in frames' : ~c.superseded => c.startValue = rendered.tweenValue]_vars

C22_Witness ==
    /\ mounted
    /\ ~effectPending
    /\ changes = 2
    /\ trigger = "props"
    /\ rendered.transitionDuration > 0
    /\ oldValue = rendered.value
    /\ previous.animationValue = rendered.value
    /\ rendered.animationValue # rendered.value
    /\ \E c \in frames :
          /\ c.startValue = rendered.animationValue
          /\ c.startValue # previous.animationValue
          /\ c.value = rendered.value

====
